---- MODULE Spec2Model ----
(***************************************************************************)
(* A model of src/code_review.py: the merge-request review pass (main),    *)
(* the diff line mapper (parse_diff_for_new_lines), the file selector      *)
(* (should_review_file), the advisory filter (analyze_with_ai) and the     *)
(* comment formatter (format_comment).                                     *)
(*                                                                         *)
(* Python strings are sequences of one-character strings, so that          *)
(* startswith, split, strip, "in" and int() are computed, not assumed.     *)
(***************************************************************************)
EXTENDS Integers, Sequences, FiniteSets, TLC

(***************************************************************************)
(* Python string primitives                                                *)
(***************************************************************************)

\* str.startswith
StartsWith(s, p) == Len(s) >= Len(p) /\ SubSeq(s, 1, Len(p)) = p

\* str.endswith
EndsWith(s, p) == Len(s) >= Len(p) /\ SubSeq(s, Len(s) - Len(p) + 1, Len(s)) = p

\* the positions at which p occurs in s
Occurrences(s, p) == {i \in 1..(Len(s) - Len(p) + 1) : SubSeq(s, i, i + Len(p) - 1) = p}

\* p in s
Contains(s, p) == Occurrences(s, p) # {}

\* the least element of a non-empty set of integers
Least(S) == CHOOSE i \in S : \A j \in S : i <= j

\* the greatest element of a non-empty set of integers
Greatest(S) == CHOOSE i \in S : \A j \in S : i >= j

\* str.split(sep), sep non-empty: the pieces between the occurrences of sep
RECURSIVE Split(_, _)
Split(s, sep) ==
    IF ~Contains(s, sep) THEN <<s>>
    ELSE LET i == Least(Occurrences(s, sep))
         IN  <<SubSeq(s, 1, i - 1)>> \o Split(SubSeq(s, i + Len(sep), Len(s)), sep)

Whitespace == {" ", "\n", "\t"}

\* str.strip()
RECURSIVE Strip(_)
Strip(s) ==
    IF s = <<>> THEN s
    ELSE IF s[1] \in Whitespace THEN Strip(Tail(s))
    ELSE IF s[Len(s)] \in Whitespace THEN Strip(SubSeq(s, 1, Len(s) - 1))
    ELSE s

Digits == <<"0", "1", "2", "3", "4", "5", "6", "7", "8", "9">>

IsDigit(c) == \E d \in 1..10 : Digits[d] = c

DigitVal(c) == (CHOOSE d \in 1..10 : Digits[d] = c) - 1

\* the digits of an int() argument once blanks and the sign are removed
Unsigned(s) ==
    LET t == Strip(s)
    IN  IF t # <<>> /\ t[1] \in {"-", "+"} THEN Tail(t) ELSE t

\* int(s) does not raise ValueError
IsInt(s) == Unsigned(s) # <<>> /\ \A i \in 1..Len(Unsigned(s)) : IsDigit(Unsigned(s)[i])

RECURSIVE DecVal(_, _)
DecVal(ds, acc) == IF ds = <<>> THEN acc ELSE DecVal(Tail(ds), 10 * acc + DigitVal(ds[1]))

\* int(s), for s with IsInt(s)
IntOf(s) ==
    LET t == Strip(s)
    IN  IF t[1] = "-" THEN 0 - DecVal(Unsigned(s), 0) ELSE DecVal(Unsigned(s), 0)

(***************************************************************************)
(* parse_diff_for_new_lines                                                *)
(***************************************************************************)

\* the try block of a hunk header line: the new cursor, or raised
HunkStart(line) ==
    LET parts == Split(line, <<"+">>)
    IN  IF Len(parts) < 2 THEN [raised |-> TRUE, val |-> 0]
        ELSE LET plus_part == Strip(Split(parts[2], <<"@", "@">>)[1])
                 num == IF Contains(plus_part, <<",">>)
                        THEN Split(plus_part, <<",">>)[1]
                        ELSE plus_part
             IN  IF IsInt(num) THEN [raised |-> FALSE, val |-> IntOf(num)]
                 ELSE [raised |-> TRUE, val |-> 0]

\* the test of the first elif: a "+" line that is not a "+++" line
IsAddedLine(line) == StartsWith(line, <<"+">>) /\ ~StartsWith(line, <<"+", "+", "+">>)

\* the test of the second elif: a "-" line that is not a "---" line
IsRemovedLine(line) == StartsWith(line, <<"-">>) /\ ~StartsWith(line, <<"-", "-", "-">>)

\* one iteration of the loop over the diff's lines
DiffStep(st, line) ==
    IF StartsWith(line, <<"@", "@">>)
    THEN IF HunkStart(line).raised THEN st
         ELSE [st EXCEPT !.current_new_line = HunkStart(line).val]
    ELSE IF IsAddedLine(line)
    THEN [new_lines |-> Append(st.new_lines, st.current_new_line),
          current_new_line |-> st.current_new_line + 1]
    ELSE IF IsRemovedLine(line) THEN st
    ELSE IF ~StartsWith(line, <<"\\">>)
    THEN [st EXCEPT !.current_new_line = st.current_new_line + 1]
    ELSE st

RECURSIVE DiffLoop(_, _)
DiffLoop(lines, st) ==
    IF lines = <<>> THEN st ELSE DiffLoop(Tail(lines), DiffStep(st, lines[1]))

parse_diff_for_new_lines(diff) ==
    DiffLoop(Split(diff, <<"\n">>), [new_lines |-> <<>>, current_new_line |-> 0]).new_lines

(***************************************************************************)
(* Unified diffs as GitLab renders them, for the checks of the mapper.     *)
(* A diff is a sequence of items: a hunk header ("hdr", gap lines after    *)
(* the previous hunk), a malformed header ("bad"), a context, added or     *)
(* removed line with its content, or the no-newline marker.  Render        *)
(* writes the text the mapper is given; the header's numbers are the       *)
(* positions and counts of the lines that follow it.                       *)
(***************************************************************************)

Item(k, gap, text) == [k |-> k, gap |-> gap, text |-> text]

IsHeaderItem(it) == it.k \in {"hdr", "bad"}

\* decimal digits of n, 0 <= n < 100
Dec(n) == IF n < 10 THEN <<Digits[n + 1]>> ELSE <<Digits[(n \div 10) + 1], Digits[(n % 10) + 1]>>

\* "start,count", the count left out when it is 1
HunkRange(start, count) == IF count = 1 THEN Dec(start) ELSE Dec(start) \o <<",">> \o Dec(count)

\* how many of the items up to the next header have one of the kinds
RECURSIVE CountKinds(_, _)
CountKinds(items, kinds) ==
    IF items = <<>> \/ IsHeaderItem(items[1]) THEN 0
    ELSE (IF items[1].k \in kinds THEN 1 ELSE 0) + CountKinds(Tail(items), kinds)

HeaderText(os, oc, ns, nc) ==
    <<"@", "@", " ", "-">> \o HunkRange(os, oc) \o <<" ", "+">> \o HunkRange(ns, nc)
        \o <<" ", "@", "@">>

\* the text lines of the items; np and op are the new-file and old-file
\* positions, live says that the lines belong to a hunk with a valid header
RECURSIVE RenderLines(_, _, _, _)
RenderLines(items, np, op, live) ==
    IF items = <<>> THEN <<>>
    ELSE LET it == items[1]
             rest == Tail(items)
         IN  CASE it.k = "hdr" ->
                    <<HeaderText(op + it.gap, CountKinds(rest, {"ctx", "del"}),
                                 np + it.gap, CountKinds(rest, {"ctx", "add"}))>>
                        \o RenderLines(rest, np + it.gap, op + it.gap, TRUE)
               [] it.k = "bad" -> <<it.text>> \o RenderLines(rest, np, op, FALSE)
               [] it.k = "ctx" ->
                    <<(<<" ">> \o it.text)>>
                        \o RenderLines(rest, IF live THEN np + 1 ELSE np,
                                        IF live THEN op + 1 ELSE op, live)
               [] it.k = "add" ->
                    <<(<<"+">> \o it.text)>>
                        \o RenderLines(rest, IF live THEN np + 1 ELSE np, op, live)
               [] it.k = "del" ->
                    <<(<<"-">> \o it.text)>>
                        \o RenderLines(rest, np, IF live THEN op + 1 ELSE op, live)
               [] OTHER -> <<it.text>> \o RenderLines(rest, np, op, live)

\* the lines, each ended by a newline
RECURSIVE JoinLines(_)
JoinLines(lines) ==
    IF lines = <<>> THEN <<>> ELSE lines[1] \o <<"\n">> \o JoinLines(Tail(lines))

Render(items) == JoinLines(RenderLines(items, 1, 1, FALSE))

\* the new-file positions of the added lines of the hunks with a valid header
RECURSIVE AddedPositions(_, _, _)
AddedPositions(items, np, live) ==
    IF items = <<>> THEN <<>>
    ELSE LET it == items[1]
             rest == Tail(items)
         IN  CASE it.k = "hdr" -> AddedPositions(rest, np + it.gap, TRUE)
               [] it.k = "bad" -> AddedPositions(rest, np, FALSE)
               [] it.k = "ctx" -> AddedPositions(rest, IF live THEN np + 1 ELSE np, live)
               [] it.k = "add" ->
                    (IF live THEN <<np>> ELSE <<>>)
                        \o AddedPositions(rest, IF live THEN np + 1 ELSE np, live)
               [] OTHER -> AddedPositions(rest, np, live)

\* a well-formed diff: it starts with a hunk header, every header is valid
\* and is followed by a line of its hunk, and the no-newline marker follows
\* a line of a hunk
WellFormed(items) ==
    /\ items # <<>>
    /\ items[1].k = "hdr"
    /\ \A i \in 1..Len(items) :
          /\ items[i].k # "bad"
          /\ items[i].k = "hdr" => i < Len(items) /\ items[i + 1].k \in {"ctx", "add", "del"}
          /\ items[i].k = "nonl" => items[i - 1].k \in {"ctx", "add", "del"}

\* the items without the lines that follow a malformed header, up to the
\* next valid header
RECURSIVE DropAfterBad(_, _)
DropAfterBad(items, live) ==
    IF items = <<>> THEN <<>>
    ELSE LET it == items[1]
             rest == Tail(items)
         IN  CASE it.k = "hdr" -> <<it>> \o DropAfterBad(rest, TRUE)
               [] it.k = "bad" -> <<it>> \o DropAfterBad(rest, FALSE)
               [] OTHER -> (IF live THEN <<it>> ELSE <<>>) \o DropAfterBad(rest, live)

GarbageHeader == <<"@", "@", " ", "g", "a", "r", "b", "a", "g", "e", " ", "@", "@">>

NonNumericHeader ==
    <<"@", "@", " ", "-", "1", ",", "2", " ", "+", "x", ",", "3", " ", "@", "@">>

NoNewlineMarker == <<"\\", " ", "N", "o", " ", "n", "e", "w", "l", "i", "n", "e">>

HeaderItems ==
    {Item("hdr", 9, <<>>), Item("bad", 0, GarbageHeader), Item("bad", 0, NonNumericHeader)}

ContentItems ==
    {Item("ctx", 0, <<"c">>), Item("add", 0, <<"a">>), Item("add", 0, <<"+", "+", "i">>),
     Item("del", 0, <<"r">>), Item("del", 0, <<"-", "-", "q">>),
     Item("nonl", 0, NoNewlineMarker)}

\* the longest diff of the mapper's checks, in lines
MaxDiffLines == 4

\* the sequences over S of length at most n
SeqsUpTo(S, n) == UNION {[1..m -> S] : m \in 0..n}

\* the example of the specification: @@ -1,2 +10,3 @@ / context / +added1 /
\* -removed / +added2
ExampleDiff ==
    <<Item("hdr", 9, <<>>), Item("ctx", 0, <<"c">>), Item("add", 0, <<"a">>),
      Item("del", 0, <<"r">>), Item("add", 0, <<"a">>)>>

DiffInputs ==
    {<<h>> \o t : h \in HeaderItems, t \in SeqsUpTo(HeaderItems \cup ContentItems, MaxDiffLines - 1)}
        \cup {ExampleDiff}


(***************************************************************************)
(* Configuration: IGNORE_PATTERNS, REVIEW_EXTENSIONS and init_config       *)
(***************************************************************************)

\* IGNORE_PATTERNS as the module sets it, in order
DefaultIgnorePatterns ==
    <<<<"*", ".", "l", "o", "c", "k">>,
     <<"*", ".", "m", "i", "n", ".", "j", "s">>,
     <<"*", ".", "m", "i", "n", ".", "c", "s", "s">>,
     <<"p", "a", "c", "k", "a", "g", "e", "-", "l", "o", "c", "k", ".", "j", "s", "o", "n">>,
     <<"y", "a", "r", "n", ".", "l", "o", "c", "k">>,
     <<"c", "o", "m", "p", "o", "s", "e", "r", ".", "l", "o", "c", "k">>,
     <<"p", "n", "p", "m", "-", "l", "o", "c", "k", ".", "y", "a", "m", "l">>,
     <<"_", "_", "p", "y", "c", "a", "c", "h", "e", "_", "_">>,
     <<".", "g", "i", "t">>,
     <<"n", "o", "d", "e", "_", "m", "o", "d", "u", "l", "e", "s">>,
     <<"v", "e", "n", "d", "o", "r", "/">>,
     <<"*", ".", "g", "e", "n", "e", "r", "a", "t", "e", "d", ".", "*">>,
     <<"*", ".", "m", "a", "p">>,
     <<"s", "t", "o", "r", "a", "g", "e", "/">>,
     <<"b", "o", "o", "t", "s", "t", "r", "a", "p", "/", "c", "a", "c", "h", "e", "/">>,
     <<"p", "u", "b", "l", "i", "c", "/", "b", "u", "i", "l", "d", "/">>,
     <<"p", "u", "b", "l", "i", "c", "/", "h", "o", "t">>,
     <<"d", "i", "s", "t", "/">>,
     <<"b", "u", "i", "l", "d", "/">>,
     <<".", "n", "e", "x", "t", "/">>,
     <<".", "n", "u", "x", "t", "/">>,
     <<"_", "i", "d", "e", "_", "h", "e", "l", "p", "e", "r", "*">>,
     <<".", "p", "h", "p", "s", "t", "o", "r", "m", ".", "m", "e", "t", "a", ".", "p", "h", "p">>>>

\* REVIEW_EXTENSIONS as the module sets it
DefaultReviewExtensions ==
    {<<".", "p", "h", "p">>,
     <<".", "v", "u", "e">>,
     <<".", "b", "l", "a", "d", "e", ".", "p", "h", "p">>,
     <<".", "p", "y">>,
     <<".", "j", "s">>,
     <<".", "t", "s">>,
     <<".", "t", "s", "x">>,
     <<".", "j", "s", "x">>,
     <<".", "m", "j", "s">>,
     <<".", "j", "a", "v", "a">>,
     <<".", "k", "t">>,
     <<".", "g", "o">>,
     <<".", "r", "s">>,
     <<".", "r", "b">>,
     <<".", "c", "s">>,
     <<".", "c", "p", "p">>,
     <<".", "c">>,
     <<".", "h">>,
     <<".", "s", "w", "i", "f", "t">>}

\* the non-empty stripped entries of a comma-separated list
RECURSIVE StrippedEntries(_)
StrippedEntries(parts) ==
    IF parts = <<>> THEN <<>>
    ELSE (IF Strip(parts[1]) # <<>> THEN <<Strip(parts[1])>> ELSE <<>>)
             \o StrippedEntries(Tail(parts))

\* an extra extension, given its leading dot when it has none
Dotted(e) == IF StartsWith(e, <<".">>) THEN e ELSE <<".">> \o e

\* init_config: the globals after the two environment lists are added
init_config(ignore_extra, extensions_extra) ==
    [IGNORE_PATTERNS |->
         IF ignore_extra # <<>>
         THEN DefaultIgnorePatterns \o StrippedEntries(Split(ignore_extra, <<",">>))
         ELSE DefaultIgnorePatterns,
     REVIEW_EXTENSIONS |->
         IF extensions_extra # <<>>
         THEN LET extra == StrippedEntries(Split(extensions_extra, <<",">>))
              IN  DefaultReviewExtensions \cup {Dotted(extra[i]) : i \in 1..Len(extra)}
         ELSE DefaultReviewExtensions]

(***************************************************************************)
(* should_review_file                                                      *)
(***************************************************************************)

UpperCase ==
    <<"A", "B", "C", "D", "E", "F", "G", "H", "I", "J", "K", "L", "M",
      "N", "O", "P", "Q", "R", "S", "T", "U", "V", "W", "X", "Y", "Z">>

LowerCase ==
    <<"a", "b", "c", "d", "e", "f", "g", "h", "i", "j", "k", "l", "m",
      "n", "o", "p", "q", "r", "s", "t", "u", "v", "w", "x", "y", "z">>

\* str.lower()
Lower(s) ==
    [i \in 1..Len(s) |->
        IF \E k \in 1..26 : UpperCase[k] = s[i]
        THEN LowerCase[CHOOSE k \in 1..26 : UpperCase[k] = s[i]]
        ELSE s[i]]

\* the path without its trailing slashes, as Path() holds it
RECURSIVE WithoutTrailingSlash(_)
WithoutTrailingSlash(p) ==
    IF Len(p) > 1 /\ p[Len(p)] = "/" THEN WithoutTrailingSlash(SubSeq(p, 1, Len(p) - 1)) ELSE p

\* Path(file_path).name: the final component
PathName(file_path) ==
    LET p == WithoutTrailingSlash(file_path)
        slashes == {i \in 1..Len(p) : p[i] = "/"}
    IN  IF slashes = {} THEN p ELSE SubSeq(p, Greatest(slashes) + 1, Len(p))

\* Path(file_path).suffix: the name from its last dot on, when that dot is
\* neither the first nor the last character of the name
PathSuffix(file_path) ==
    LET name == PathName(file_path)
        dots == {i \in 1..Len(name) : name[i] = "."}
    IN  IF dots # {} /\ 1 < Greatest(dots) /\ Greatest(dots) < Len(name)
        THEN SubSeq(name, Greatest(dots), Len(name))
        ELSE <<>>

\* the body of the loop over IGNORE_PATTERNS: this pattern returns False
PatternExcludes(pattern, file_path) ==
    IF StartsWith(pattern, <<"*">>)
    THEN \/ PathSuffix(file_path) = Tail(pattern)
         \/ EndsWith(PathName(file_path), Tail(pattern))
    ELSE IF EndsWith(pattern, <<"/">>)
    THEN Contains(file_path, SubSeq(pattern, 1, Len(pattern) - 1))
    ELSE Contains(file_path, pattern)

\* the loop, left at the first pattern that returns False
RECURSIVE IgnoreLoop(_, _)
IgnoreLoop(patterns, file_path) ==
    IF patterns = <<>> THEN FALSE
    ELSE IF PatternExcludes(patterns[1], file_path) THEN TRUE
    ELSE IgnoreLoop(Tail(patterns), file_path)

\* should_review_file without the loop over IGNORE_PATTERNS
ReviewByExtensionOnly(cfg, file_path) ==
    Lower(PathSuffix(file_path)) \in cfg.REVIEW_EXTENSIONS

should_review_file(cfg, file_path) ==
    IF IgnoreLoop(cfg.IGNORE_PATTERNS, file_path) THEN FALSE
    ELSE Lower(PathSuffix(file_path)) \in cfg.REVIEW_EXTENSIONS

\* paths of the selector's checks: a directory part, a stem and an ending
PathDirs ==
    {<<>>,
     <<"s", "r", "c", "/">>,
     <<"v", "e", "n", "d", "o", "r", "/", "p", "k", "g", "/">>,
     <<"n", "o", "d", "e", "_", "m", "o", "d", "u", "l", "e", "s", "/">>,
     <<"d", "i", "s", "t", "r", "i", "b", "u", "t", "i", "o", "n", "/">>,
     <<"l", "i", "b", "/", "n", "o", "d", "e", "_", "m", "o", "d", "u", "l", "e", "s", "_", "x", "/">>}

PathStems ==
    {<<"a", "p", "p">>,
     <<"y", "a", "r", "n">>,
     <<"x", ".", "m", "i", "n">>,
     <<"_", "i", "d", "e", "_", "h", "e", "l", "p", "e", "r">>,
     <<"a", ".", "g", "e", "n", "e", "r", "a", "t", "e", "d">>,
     <<".", "g", "i", "t">>}

PathEndings ==
    {<<>>,
     <<".", "g", "o">>,
     <<".", "G", "O">>,
     <<".", "l", "o", "c", "k">>,
     <<".", "j", "s">>,
     <<".", "m", "a", "p">>,
     <<".", "m", "d">>,
     <<".", "p", "h", "p">>,
     <<".">>,
     <<".", "g", "e", "n", "e", "r", "a", "t", "e", "d", ".", "*">>}

SelectorPaths == {d \o s \o e : d \in PathDirs, s \in PathStems, e \in PathEndings}

\* values of the IGNORE_PATTERNS and REVIEW_EXTENSIONS environment variables
IgnoreExtras ==
    {<<>>,
     <<"*", ".", "g", "o">>,
     <<" ", "d", "o", "c", "s", "/", " ", ",", ",", "a", "p", "p">>}

ExtensionExtras ==
    {<<>>,
     <<"m", "d", ",", " ", ".", "l", "o", "c", "k">>}

SrcAppGo == <<"s", "r", "c", "/", "a", "p", "p", ".", "g", "o">>

VendorPkgAppGo == <<"v", "e", "n", "d", "o", "r", "/", "p", "k", "g", "/", "a", "p", "p", ".", "g", "o">>

NodeModules == <<"n", "o", "d", "e", "_", "m", "o", "d", "u", "l", "e", "s">>


(***************************************************************************)
(* Comment bodies.  A body is the sequence of the literal pieces the code  *)
(* writes it from ("text"); the three numbers of a final summary are kept  *)
(* beside it ("stats": files reviewed, comments, deleted).  A marker is    *)
(* in a body when it is one of its pieces.                                 *)
(***************************************************************************)

AuthorMarker == "**RejPAL**"

LegacyAuthorMarker == "**AI Review**"

SummaryMarker == "## RejPAL"

LegacySummaryMarker == "## AI Code Review"

Body(text, stats) == [text |-> text, stats |-> stats]

\* marker in body
BodyContains(body, marker) == \E i \in 1..Len(body.text) : body.text[i] = marker

\* the placeholder of main
Placeholder == Body(<<SummaryMarker, "analysis running">>, <<>>)

\* the final summary with the test of total_comments inverted
SummaryInverted(reviewed_files, total_comments, deleted_count) ==
    Body(<<SummaryMarker, "| metric | value |",
           IF total_comments # 0 THEN "no significant problems" ELSE "see inline comments",
           "generated automatically">>,
         <<reviewed_files, total_comments, deleted_count>>)

\* the final summary of main
SummaryBody(reviewed_files, total_comments, deleted_count) ==
    Body(<<SummaryMarker, "| metric | value |",
           IF total_comments = 0 THEN "no significant problems" ELSE "see inline comments",
           "generated automatically">>,
         <<reviewed_files, total_comments, deleted_count>>)

\* severity_emoji.get(severity, fallback)
SeverityEmoji(severity) ==
    CASE severity = "critical" -> "red"
      [] severity = "warning" -> "yellow"
      [] severity = "suggestion" -> "bulb"
      [] OTHER -> "speech"

\* format_comment without the authorship marker in the text
FormatWithoutMarker(comment) ==
    Body(<<SeverityEmoji(comment.severity), comment.message>>
             \o (IF comment.suggestion # "" THEN <<"suggestion:", comment.suggestion>> ELSE <<>>),
         <<>>)

format_comment(comment) ==
    Body(<<SeverityEmoji(comment.severity), AuthorMarker, comment.message>>
             \o (IF comment.suggestion # "" THEN <<"suggestion:", comment.suggestion>> ELSE <<>>),
         <<>>)

\* no note: None, which "not summary_note_id" cannot tell from the id 0
None == 0

\* find_existing_summary_note, with the current marker only
RECURSIVE FindCurrentSummaryOnly(_)
FindCurrentSummaryOnly(notes) ==
    IF notes = <<>> THEN None
    ELSE IF BodyContains(notes[1].body, SummaryMarker) THEN notes[1].id
    ELSE FindCurrentSummaryOnly(Tail(notes))

RECURSIVE find_existing_summary_note(_)
find_existing_summary_note(notes) ==
    IF notes = <<>> THEN None
    ELSE IF \/ BodyContains(notes[1].body, SummaryMarker)
            \/ BodyContains(notes[1].body, LegacySummaryMarker)
    THEN notes[1].id
    ELSE find_existing_summary_note(Tail(notes))

\* the test of get_existing_ai_comments, with the current marker only
IsCurrentAiCommentOnly(note) == BodyContains(note.body, AuthorMarker)

\* the test of get_existing_ai_comments, with the legacy marker only
IsLegacyAiCommentOnly(note) == BodyContains(note.body, LegacyAuthorMarker)

\* the test of get_existing_ai_comments, left out: every note is taken
IsAnyNote(note) == TRUE

\* the test of get_existing_ai_comments: the note is one of the reviewer's
IsAiComment(note) ==
    BodyContains(note.body, AuthorMarker) \/ BodyContains(note.body, LegacyAuthorMarker)

RECURSIVE get_existing_ai_comments(_)
get_existing_ai_comments(discussions) ==
    IF discussions = <<>> THEN <<>>
    ELSE (IF IsAiComment(discussions[1])
          THEN <<[note_id |-> discussions[1].id,
                  discussion_id |-> discussions[1].discussion_id,
                  file_path |-> discussions[1].path,
                  line |-> discussions[1].line]>>
          ELSE <<>>)
             \o get_existing_ai_comments(Tail(discussions))

(***************************************************************************)
(* analyze_with_ai: the handling of the advisory service's answer          *)
(***************************************************************************)

\* JSON values of a finding's "line"
IntLine(n) == [t |-> "int", v |-> n]

StrLine(n) == [t |-> "str", v |-> n]

NoLine == [t |-> "none", v |-> 0]

\* c.get("line") in changed_lines: an int equals an int, a string or None
\* equals none
LineIn(line, changed_lines) ==
    line.t = "int" /\ \E i \in 1..Len(changed_lines) : changed_lines[i] = line.v

Finding(line, message, severity, suggestion) ==
    [dict |-> TRUE, line |-> line, message |-> message, severity |-> severity,
     suggestion |-> suggestion]

\* an element of the answer that is no object
NotADict ==
    [dict |-> FALSE, line |-> NoLine, message |-> "", severity |-> "", suggestion |-> ""]

\* the filter of valid_comments, without the test of the line
AcceptsAnyLine(c, changed_lines) == c.dict /\ c.message # ""

\* the filter of valid_comments
IsValidComment(c, changed_lines) ==
    c.dict /\ LineIn(c.line, changed_lines) /\ c.message # ""

RECURSIVE ValidComments(_, _)
ValidComments(comments, changed_lines) ==
    IF comments = <<>> THEN <<>>
    ELSE (IF IsValidComment(comments[1], changed_lines) THEN <<comments[1]>> ELSE <<>>)
             \o ValidComments(Tail(comments), changed_lines)

\* the text given to json.loads: the answer without its code fence; a fence
\* with another word than json leaves that word before the payload
Unfenced(response) ==
    IF response.fence \in {"none", "fence", "fence json"} THEN response.payload
    ELSE [kind |-> "invalid", items |-> <<>>]

\* analyze_with_ai from the answer on: the accepted findings, or the error
\* that leaves the function.  json.loads raises JSONDecodeError on text that
\* is no JSON (caught: no findings); iterating a number, null or a boolean
\* raises TypeError (not caught); iterating an object gives its keys and
\* iterating a string its characters, none of them a dict
analyze_with_ai(response, changed_lines) ==
    LET parsed == Unfenced(response)
    IN  CASE parsed.kind = "invalid" -> [raised |-> "none", comments |-> <<>>]
          [] parsed.kind \in {"number", "null", "boolean"} ->
                [raised |-> "TypeError", comments |-> <<>>]
          [] parsed.kind \in {"object", "string"} -> [raised |-> "none", comments |-> <<>>]
          [] OTHER -> [raised |-> "none",
                       comments |-> ValidComments(parsed.items, changed_lines)]


(***************************************************************************)
(* The state: the change-tracking store, the merge request, the advisory   *)
(* service and the passes                                                  *)
(***************************************************************************)

VARIABLES
    config,       \* IGNORE_PATTERNS and REVIEW_EXTENSIONS after init_config
    mr,           \* the merge request's changes, and each file's content at the source branch
    advisory,     \* mode "live": any answer to each call; mode "stub": always its one answer
    notes,        \* the store's notes at merge-request level
    discussions,  \* the store's positioned notes (inline comments), one per discussion
    nextId,       \* the identifier the store gives to the next note
    run,          \* per process: main's position and local variables
    passNo,       \* passes started so far
    faults,       \* calls that have failed so far
    calls,        \* history: the create_mr_discussion calls made
    snap,         \* history: the store as each completed pass left it
    fin,          \* the argument of the function under check
    fout,         \* its result
    fdone         \* the function has been applied

vars == <<config, mr, advisory, notes, discussions, nextId, run, passNo, faults, calls,
          snap, fin, fout, fdone>>

passVars == <<config, mr, advisory, notes, discussions, nextId, run, passNo, faults, calls, snap>>

fnVars == <<fin, fout, fdone>>

\* passes started in one behaviour
MaxPasses == 2

\* failing calls in one behaviour
MaxFaults == 1

\* elements of one answer of the advisory service
MaxFindings == 2

Procs == {"A", "B"}

\* the processes of the serialized runs: one CI job after the other
SerialProcs == {"A"}

Plain(words) == Body(words, <<>>)

HumanNote == [id |-> 1, body |-> Plain(<<"looks good to me">>)]

LegacySummaryNote == [id |-> 2, body |-> Plain(<<LegacySummaryMarker, "old statistics">>)]

CurrentSummaryNote == [id |-> 2, body |-> SummaryBody(1, 1, 0)]


SrcOldGo == <<"s", "r", "c", "/", "o", "l", "d", ".", "g", "o">>

SrcDelGo == <<"s", "r", "c", "/", "d", "e", "l", ".", "g", "o">>

SrcGoneGo == <<"s", "r", "c", "/", "g", "o", "n", "e", ".", "g", "o">>

SrcEmptyGo == <<"s", "r", "c", "/", "e", "m", "p", "t", "y", ".", "g", "o">>

PositionedNote(id, body, path, line, by) ==
    [id |-> id, discussion_id |-> id, body |-> body, path |-> path, line |-> line, by |-> by]

HumanComment == PositionedNote(3, Plain(<<"why this change?">>), SrcAppGo, 11, 0)

LegacyAiComment ==
    PositionedNote(4, Plain(<<"yellow", LegacyAuthorMarker, "m">>), SrcAppGo, 11, 0)

CurrentAiComment ==
    PositionedNote(5, format_comment(Finding(IntLine(12), "m", "warning", "")), SrcAppGo, 12, 0)

\* the stores the passes start from: no summary note or one, with or
\* without comments of earlier passes
InitialStores ==
    {[notes |-> {HumanNote}, discussions |-> {HumanComment}],
     [notes |-> {HumanNote, LegacySummaryNote},
      discussions |-> {HumanComment, LegacyAiComment, CurrentAiComment}],
     [notes |-> {HumanNote, CurrentSummaryNote}, discussions |-> {HumanComment, CurrentAiComment}]}

\* the store numbers its notes upwards: the first identifier not yet used
FirstFreeId ==
    1 + Greatest({n.id : n \in UNION {st.notes \cup st.discussions : st \in InitialStores}})

\* a diff of removed lines only
PureDeletion == <<Item("hdr", 2, <<>>), Item("del", 0, <<"r">>), Item("del", 0, <<"r">>)>>

FileChange(new_path, items, deleted_file, content) ==
    [new_path |-> new_path, diff |-> Render(items), deleted_file |-> deleted_file,
     content |-> content]

GoodFile == FileChange(SrcAppGo, ExampleDiff, FALSE, "text")

VendorFile == FileChange(VendorPkgAppGo, ExampleDiff, FALSE, "text")

DeletedFile == FileChange(SrcOldGo, PureDeletion, TRUE, "absent")

NoLinesFile == FileChange(SrcDelGo, PureDeletion, FALSE, "text")

AbsentFile == FileChange(SrcGoneGo, ExampleDiff, FALSE, "absent")

EmptyContentFile == FileChange(SrcEmptyGo, ExampleDiff, FALSE, "empty")

ChangeSets ==
    {<<VendorFile, DeletedFile, GoodFile>>,
     <<NoLinesFile, DeletedFile>>,
     <<AbsentFile, GoodFile, EmptyContentFile>>}

\* the elements of the answers of the advisory service: a finding on an
\* eligible line, and the ways of not being one
FindingItems ==
    {Finding(IntLine(11), "m", "warning", ""), Finding(IntLine(13), "m", "warning", ""),
     Finding(IntLine(11), "", "warning", ""), Finding(NoLine, "m", "warning", ""),
     Finding(StrLine(11), "m", "warning", ""), NotADict}

\* the answers that are no list, and the lists in which at most one element
\* is not the finding on an eligible line
Payloads ==
    {[kind |-> k, items |-> <<>>] : k \in {"invalid", "number", "null", "object", "string"}}
        \cup {[kind |-> "array", items |-> its] :
                 its \in {q \in SeqsUpTo(FindingItems, MaxFindings) :
                            Cardinality({i \in 1..Len(q) :
                                q[i] # Finding(IntLine(11), "m", "warning", "")}) <= 1}}

\* every payload bare, and the short ones inside a code fence
Responses ==
    {[fence |-> "none", payload |-> p] : p \in Payloads}
        \cup {[fence |-> f, payload |-> p] :
                 f \in {"fence", "fence json", "fence other"},
                 p \in {q \in Payloads : Len(q.items) <= 1}}

Answer(items) == [fence |-> "none", payload |-> [kind |-> "array", items |-> items]]

\* the answers of the deterministic stubs
StubResponses ==
    {Answer(<<Finding(IntLine(11), "m", "warning", "")>>),
     Answer(<<Finding(IntLine(12), "m", "other", "s"), Finding(IntLine(13), "m", "warning", ""),
              Finding(IntLine(12), "m", "other", "s")>>),
     [fence |-> "none", payload |-> [kind |-> "invalid", items |-> <<>>]]}

\* the service answers each call as it likes
Live == [mode |-> "live", answer |-> Answer(<<>>)]

\* main's local variables before a pass
IdleRun ==
    [pc |-> "idle", pass |-> 0, raised |-> "none",
     existing_ai_comments |-> <<>>, deleted_count |-> 0, summary_note_id |-> None,
     total_comments |-> 0, reviewed_files |-> 0, file |-> 1, changed_lines |-> <<>>,
     comments |-> <<>>, i |-> 1,
     \* history of the pass
     log |-> <<>>, summary_found |-> Plain(<<>>), overlaps |-> FALSE,
     deleted_ok |-> 0, delete_failed |-> {}, published_ok |-> 0, failed |-> 0,
     created_summary |-> FALSE, malformed |-> FALSE, dropped |-> FALSE, repeated |-> FALSE]

\* every change set with the live service, and the first with each stub
PassInit ==
    /\ config = init_config(<<>>, <<>>)
    /\ mr \in ChangeSets
    /\ advisory \in {Live} \cup {[mode |-> "stub", answer |-> a] : a \in StubResponses}
    /\ advisory.mode = "stub" => mr = <<VendorFile, DeletedFile, GoodFile>>
    /\ \E store \in InitialStores : notes = store.notes /\ discussions = store.discussions
    /\ nextId = FirstFreeId
    /\ run = [p \in Procs |-> IdleRun]
    /\ passNo = 0
    /\ faults = 0
    /\ calls = {}
    /\ snap = <<>>

FnIdle == fin = <<>> /\ fout = <<>> /\ fdone = FALSE

Init == PassInit /\ FnIdle


(***************************************************************************)
(* main: one action per call to the store or to the advisory service,      *)
(* with the local steps that follow the call                               *)
(***************************************************************************)

\* a set of notes as the list the store returns, by ascending identifier
RECURSIVE Ascending(_)
Ascending(S) ==
    IF S = {} THEN <<>>
    ELSE LET n == CHOOSE x \in S : \A y \in S : x.id <= y.id
         IN  <<n>> \o Ascending(S \ {n})

\* the same, newest first
RECURSIVE Descending(_)
Descending(S) ==
    IF S = {} THEN <<>>
    ELSE LET n == CHOOSE x \in S : \A y \in S : x.id >= y.id
         IN  <<n>> \o Descending(S \ {n})

\* a note at merge-request level as the discussions list shows it: a
\* discussion of one note that has no position
Positionless(note) ==
    [id |-> note.id, discussion_id |-> note.id, body |-> note.body, path |-> <<>>,
     line |-> None, by |-> 0]

\* get_mr_discussions: every discussion, oldest first; the list holds the
\* inline comments and the notes at merge-request level
get_mr_discussions == Ascending(discussions \cup {Positionless(n) : n \in notes})

\* get_mr_notes: every note at merge-request level, newest first
get_mr_notes == Descending(notes)

\* history: the call op, to the note or the change target, returned (ok) or
\* failed
Logged(r, op, target, ok) ==
    [r EXCEPT !.log = Append(r.log, [op |-> op, target |-> target, ok |-> ok])]

\* an exception leaves main
Raise(r, exception) == [r EXCEPT !.pc = "aborted", !.raised = exception]

\* a call to the store failed and the failure is only counted: main stays
\* where it is
HttpErrorIgnored(r) == [r EXCEPT !.failed = r.failed + 1]

\* a call to the store failed: raise_for_status raises
HttpError(r) == [Raise(r, "HTTPError") EXCEPT !.failed = r.failed + 1]

\* the position of main after the body of the loop over the changes
NextChange(r) ==
    [r EXCEPT !.file = r.file + 1,
              !.pc = IF r.file + 1 > Len(mr) THEN "update_mr_note" ELSE "review_file"]

\* the position of main once the summary note is known
ToChanges(r) == [r EXCEPT !.pc = IF Len(mr) = 0 THEN "update_mr_note" ELSE "review_file"]

\* a call may fail while the behaviour's failures are not used up
MayFail == faults < MaxFaults

\* the process q is inside main
RunsPass(q) == run[q].pc \notin {"idle", "done", "aborted"}

\* main up to its first call: a new process, its locals fresh
Start(p) ==
    /\ run[p].pc \in {"idle", "done", "aborted"}
    /\ passNo < MaxPasses
    /\ passNo' = passNo + 1
    /\ run' = [run EXCEPT ![p] =
          [IdleRun EXCEPT !.pc = "get_mr_info", !.pass = passNo + 1,
                          \* history: the pass, or an earlier one of p, began during another
                          !.overlaps = run[p].overlaps \/ \E q \in Procs \ {p} : RunsPass(q)]]
    /\ UNCHANGED <<fnVars, config, mr, advisory, notes, discussions, nextId, faults, calls, snap>>

\* a call that only reads and leads to the position next
ReadCall(p, at, next) ==
    /\ run[p].pc = at
    /\ \E ok \in BOOLEAN :
          /\ ok \/ MayFail
          /\ run' = [run EXCEPT ![p] =
                IF ok THEN [Logged(@, at, 0, TRUE) EXCEPT !.pc = next]
                ELSE HttpError(Logged(@, at, 0, FALSE))]
          /\ faults' = IF ok THEN faults ELSE faults + 1
    /\ UNCHANGED <<fnVars, config, mr, advisory, notes, discussions, nextId, passNo, calls, snap>>

GetMrInfo(p) == ReadCall(p, "get_mr_info", "get_mr_changes")

GetMrChanges(p) == ReadCall(p, "get_mr_changes", "get_mr_discussions")

\* discussions = get_mr_discussions(); existing_ai_comments = ...; deleted_count = 0
GetMrDiscussions(p) ==
    /\ run[p].pc = "get_mr_discussions"
    /\ \E ok \in BOOLEAN :
          /\ ok \/ MayFail
          /\ run' = [run EXCEPT ![p] =
                IF ok
                THEN LET existing == get_existing_ai_comments(get_mr_discussions)
                     IN  [Logged(@, "get_mr_discussions", 0, TRUE) EXCEPT
                                   !.existing_ai_comments = existing,
                                   !.deleted_count = 0,
                                   !.i = 1,
                                   !.pc = IF existing # <<>> THEN "delete_mr_note"
                                          ELSE "get_mr_notes"]
                ELSE HttpError(Logged(@, "get_mr_discussions", 0, FALSE))]
          /\ faults' = IF ok THEN faults ELSE faults + 1
    /\ UNCHANGED <<fnVars, config, mr, advisory, notes, discussions, nextId, passNo, calls, snap>>

\* deleted_count after one delete_mr_note call
DeletedCountAfter(deleted_count, ok) == deleted_count + 1

\* one iteration of the loop over existing_ai_comments
DeleteMrNote(p) ==
    /\ run[p].pc = "delete_mr_note"
    /\ LET r == run[p]
           id == r.existing_ai_comments[r.i].note_id
           there == {d \in discussions : d.id = id}
           plain == {n \in notes : n.id = id}
       IN  \E ok \in BOOLEAN :
              /\ ok => there \cup plain # {}
              /\ ok \/ MayFail \/ there \cup plain = {}
              /\ discussions' = IF ok THEN discussions \ there ELSE discussions
              /\ notes' = IF ok THEN notes \ plain ELSE notes
              /\ faults' = IF ok \/ there \cup plain = {} THEN faults ELSE faults + 1
              /\ run' = [run EXCEPT ![p] =
                    [Logged(r, "delete_mr_note", id, ok) EXCEPT
                              !.deleted_count = DeletedCountAfter(r.deleted_count, ok),
                              !.deleted_ok = IF ok THEN r.deleted_ok + 1 ELSE r.deleted_ok,
                              !.delete_failed = IF ok THEN r.delete_failed
                                                ELSE r.delete_failed \cup {id},
                              !.failed = IF ok THEN r.failed ELSE r.failed + 1,
                              !.i = r.i + 1,
                              !.pc = IF r.i + 1 > Len(r.existing_ai_comments)
                                     THEN "get_mr_notes" ELSE "delete_mr_note"]]
    /\ UNCHANGED <<fnVars, config, mr, advisory, nextId, passNo, calls, snap>>

\* notes = get_mr_notes(); summary_note_id = find_existing_summary_note(notes)
GetMrNotes(p) ==
    /\ run[p].pc = "get_mr_notes"
    /\ \E ok \in BOOLEAN :
          /\ ok \/ MayFail
          /\ run' = [run EXCEPT ![p] =
                IF ok
                THEN LET id == find_existing_summary_note(get_mr_notes)
                         listed == Logged(@, "get_mr_notes", 0, TRUE)
                     IN  IF id = None THEN [listed EXCEPT !.summary_note_id = id,
                                                          !.pc = "create_mr_note"]
                         ELSE ToChanges([listed EXCEPT
                                  !.summary_note_id = id,
                                  !.summary_found = (CHOOSE n \in notes : n.id = id).body])
                ELSE HttpError(Logged(@, "get_mr_notes", 0, FALSE))]
          /\ faults' = IF ok THEN faults ELSE faults + 1
    /\ UNCHANGED <<fnVars, config, mr, advisory, notes, discussions, nextId, passNo, calls, snap>>

\* result = create_mr_note(placeholder); summary_note_id = result.get("id")
CreateMrNote(p) ==
    /\ run[p].pc = "create_mr_note"
    /\ \E ok \in BOOLEAN :
          /\ ok \/ MayFail
          /\ notes' = IF ok THEN notes \cup {[id |-> nextId, body |-> Placeholder]} ELSE notes
          /\ nextId' = IF ok THEN nextId + 1 ELSE nextId
          /\ run' = [run EXCEPT ![p] =
                IF ok THEN ToChanges([Logged(@, "create_mr_note", nextId, TRUE) EXCEPT
                                         !.summary_note_id = nextId,
                                         !.created_summary = TRUE])
                ELSE HttpError(Logged(@, "create_mr_note", 0, FALSE))]
          /\ faults' = IF ok THEN faults ELSE faults + 1
    /\ UNCHANGED <<fnVars, config, mr, advisory, discussions, passNo, calls, snap>>

\* the test of file_content with every file taken to have content
NeverMissing(file_content) == FALSE

\* not file_content: None of a file absent at the revision (404), or the
\* empty text
NoContent(file_content) == file_content \in {"absent", "empty"}

\* the body of the loop over the changes, up to the call of analyze_with_ai
ReviewFile(p) ==
    /\ run[p].pc = "review_file"
    /\ LET r == run[p]
           change == mr[r.file]
           selected == should_review_file(config, change.new_path) /\ ~change.deleted_file
           changed_lines == parse_diff_for_new_lines(change.diff)
           fetches == selected /\ changed_lines # <<>>
           counted == IF selected THEN [r EXCEPT !.reviewed_files = r.reviewed_files + 1] ELSE r
       IN  \E ok \in BOOLEAN :
              /\ ok \/ (fetches /\ MayFail)
              /\ run' = [run EXCEPT ![p] =
                    LET fetched == Logged(counted, "get_file_content", r.file, ok)
                    IN  IF ~fetches THEN NextChange(counted)
                        ELSE IF ~ok THEN HttpError(fetched)
                        ELSE IF NoContent(change.content) THEN NextChange(fetched)
                        ELSE [fetched EXCEPT !.changed_lines = changed_lines, !.pc = "analyze"]]
              /\ faults' = IF ok THEN faults ELSE faults + 1
    /\ UNCHANGED <<fnVars, config, mr, advisory, notes, discussions, nextId, passNo, calls, snap>>

\* the answers the advisory service may give to a call
Answers == IF advisory.mode = "live" THEN Responses ELSE {advisory.answer}

\* the answer is no JSON list
IsMalformed(response) == Unfenced(response).kind # "array"

\* history: an element of the answer was not accepted
Drops(response, comments) ==
    Unfenced(response).kind = "array" /\ Len(comments) < Len(Unfenced(response).items)

\* history: two accepted findings give the same line and the same body
Repeats(comments) ==
    \E i, j \in 1..Len(comments) :
        i < j /\ comments[i].line = comments[j].line
              /\ format_comment(comments[i]) = format_comment(comments[j])

\* comments = analyze_with_ai(...)
Analyze(p) ==
    /\ run[p].pc = "analyze"
    /\ \E response \in Answers :
          LET r == run[p]
              result == analyze_with_ai(response, r.changed_lines)
              noted == [Logged(r, "chat", r.file, TRUE) EXCEPT !.malformed = r.malformed \/ IsMalformed(response),
                                 !.dropped = r.dropped \/ Drops(response, result.comments),
                                 !.repeated = r.repeated \/ Repeats(result.comments)]
          IN  run' = [run EXCEPT ![p] =
                  IF result.raised # "none" THEN Raise(noted, result.raised)
                  ELSE IF result.comments = <<>> THEN NextChange([noted EXCEPT !.comments = <<>>])
                  ELSE [noted EXCEPT !.comments = result.comments, !.i = 1,
                                     !.pc = "create_mr_discussion"]]
    /\ UNCHANGED <<fnVars, config, mr, advisory, notes, discussions, nextId, passNo, faults, calls, snap>>

\* ai_client.chat raises: the service cannot be reached
AdvisoryFails(p) ==
    /\ run[p].pc = "analyze"
    /\ MayFail
    /\ faults' = faults + 1
    /\ run' = [run EXCEPT ![p] =
          [Raise(Logged(@, "chat", @.file, FALSE), "APIError") EXCEPT !.failed = @ + 1]]
    /\ UNCHANGED <<fnVars, config, mr, advisory, notes, discussions, nextId, passNo, calls, snap>>

\* total_comments after one create_mr_discussion call, counting every call
TotalCommentsAfter(total_comments, ok) == total_comments + 1

\* one iteration of the loop over the accepted comments
CreateMrDiscussion(p) ==
    /\ run[p].pc = "create_mr_discussion"
    /\ LET r == run[p]
           comment == r.comments[r.i]
           file_path == mr[r.file].new_path
           body == format_comment(comment)
           after == [r EXCEPT !.i = r.i + 1]
       IN  \E ok \in BOOLEAN :
              /\ ok \/ MayFail
              /\ discussions' =
                    IF ok
                    THEN discussions
                             \cup {PositionedNote(nextId, body, file_path, comment.line.v, r.pass)}
                    ELSE discussions
              /\ nextId' = IF ok THEN nextId + 1 ELSE nextId
              /\ faults' = IF ok THEN faults ELSE faults + 1
              /\ calls' = calls \cup {[file_path |-> file_path, line |-> comment.line,
                                       message |-> comment.message]}
              /\ run' = [run EXCEPT ![p] =
                    LET counted ==
                            [Logged(r, "create_mr_discussion", r.file, ok) EXCEPT
                                      !.total_comments = TotalCommentsAfter(r.total_comments, ok),
                                      !.published_ok = IF ok THEN @ + 1 ELSE @,
                                      !.failed = IF ok THEN @ ELSE @ + 1,
                                      !.i = r.i + 1]
                    IN  IF r.i + 1 > Len(r.comments) THEN NextChange(counted) ELSE counted]
    /\ UNCHANGED <<fnVars, config, mr, advisory, notes, passNo, snap>>

\* the positioned notes that carry an authorship marker
AiComments(ds) ==
    {d \in ds : BodyContains(d.body, AuthorMarker) \/ BodyContains(d.body, LegacyAuthorMarker)}

\* the notes that carry a summary marker
SummaryNotes(ns) ==
    {n \in ns : BodyContains(n.body, SummaryMarker) \/ BodyContains(n.body, LegacySummaryMarker)}

\* history: the store as the pass of r leaves it
Snapshot(r, ns, ds) ==
    [pass |-> r.pass, clean |-> r.failed = 0, summary_note_id |-> r.summary_note_id,
     published |-> {<<d.path, d.line, d.body>> : d \in AiComments(ds)},
     count |-> Cardinality(AiComments(ds)),
     summaries |-> Cardinality(SummaryNotes(ns))]

\* update_mr_note(summary_note_id, summary)
UpdateMrNote(p) ==
    /\ run[p].pc = "update_mr_note"
    /\ LET r == run[p]
           there == {n \in notes : n.id = r.summary_note_id}
           summary == SummaryBody(r.reviewed_files, r.total_comments, r.deleted_count)
           updated == (notes \ there) \cup {[id |-> r.summary_note_id, body |-> summary]}
       IN  \E ok \in BOOLEAN :
              /\ ok => there # {}
              /\ ok \/ MayFail \/ there = {}
              /\ notes' = IF ok THEN updated ELSE notes
              /\ faults' = IF ok \/ there = {} THEN faults ELSE faults + 1
              /\ run' = [run EXCEPT ![p] =
                    IF ok THEN [Logged(@, "update_mr_note", r.summary_note_id, TRUE) EXCEPT
                                   !.pc = "done"]
                    ELSE HttpError(Logged(@, "update_mr_note", r.summary_note_id, FALSE))]
              /\ snap' = IF ok THEN Append(snap, Snapshot(r, updated, discussions)) ELSE snap
    /\ UNCHANGED <<fnVars, config, mr, advisory, discussions, nextId, passNo, calls>>

\* passes one after the other
Next ==
    \E p \in SerialProcs :
    \/ Start(p)
    \/ GetMrInfo(p)
    \/ GetMrChanges(p)
    \/ GetMrDiscussions(p)
    \/ DeleteMrNote(p)
    \/ GetMrNotes(p)
    \/ CreateMrNote(p)
    \/ ReviewFile(p)
    \/ Analyze(p)
    \/ AdvisoryFails(p)
    \/ CreateMrDiscussion(p)
    \/ UpdateMrNote(p)

Spec == Init /\ [][Next]_vars

\* passes of two CI jobs on the same merge request, not serialized
NextRace ==
    \E p \in Procs :
    \/ Start(p)
    \/ GetMrInfo(p)
    \/ GetMrChanges(p)
    \/ GetMrDiscussions(p)
    \/ DeleteMrNote(p)
    \/ GetMrNotes(p)
    \/ CreateMrNote(p)
    \/ ReviewFile(p)
    \/ Analyze(p)
    \/ AdvisoryFails(p)
    \/ CreateMrDiscussion(p)
    \/ UpdateMrNote(p)

\* the races are over the store: one change set and one stub answer, from
\* a store without summary note or with a legacy one
InitRace ==
    /\ config = init_config(<<>>, <<>>)
    /\ mr = <<GoodFile>>
    /\ advisory = [mode |-> "stub", answer |-> Answer(<<Finding(IntLine(11), "m", "warning", "")>>)]
    /\ notes \in {{HumanNote}, {HumanNote, LegacySummaryNote}}
    /\ discussions = {HumanComment}
    /\ nextId = FirstFreeId
    /\ run = [p \in Procs |-> IdleRun]
    /\ passNo = 0
    /\ faults = 0
    /\ calls = {}
    /\ snap = <<>>
    /\ FnIdle

SpecRace == InitRace /\ [][NextRace]_vars


(***************************************************************************)
(* The mapper and the selector on their own: the argument is drawn at the  *)
(* start and the function applied to it                                    *)
(***************************************************************************)

\* no pass runs
PassIdle ==
    /\ mr = <<>>
    /\ advisory = Live
    /\ notes = {}
    /\ discussions = {}
    /\ nextId = FirstFreeId
    /\ run = [p \in Procs |-> IdleRun]
    /\ passNo = 0
    /\ faults = 0
    /\ calls = {}
    /\ snap = <<>>

InitDiff ==
    /\ PassIdle
    /\ config = init_config(<<>>, <<>>)
    /\ fin \in DiffInputs
    /\ fout = <<>>
    /\ fdone = FALSE

\* changed_lines = parse_diff_for_new_lines(diff)
MapDiff ==
    /\ ~fdone
    /\ fdone' = TRUE
    /\ fout' = parse_diff_for_new_lines(Render(fin))
    /\ UNCHANGED <<fin, passVars>>

SpecDiff == InitDiff /\ [][MapDiff]_vars

InitSelect ==
    /\ PassIdle
    /\ \E ignore_extra \in IgnoreExtras, extensions_extra \in ExtensionExtras :
          config = init_config(ignore_extra, extensions_extra)
    /\ fin \in SelectorPaths
    /\ fout = FALSE
    /\ fdone = FALSE

\* should_review_file(file_path)
SelectFile ==
    /\ ~fdone
    /\ fdone' = TRUE
    /\ fout' = should_review_file(config, fin)
    /\ UNCHANGED <<fin, passVars>>

SpecSelect == InitSelect /\ [][SelectFile]_vars


(***************************************************************************)
(* Properties                                                              *)
(***************************************************************************)

\* the pass of process p has completed
Done(p) == run[p].pc = "done"

\* the note the pass of p took for the summary
SummaryNoteOf(p) == CHOOSE n \in notes : n.id = run[p].summary_note_id

\* C1: at most one note at merge-request level carries a summary marker
\* (current or legacy), in every state of serialized passes that start from a
\* store with no summary note or one, whatever calls fail.
C1_AtMostOneSummary == Cardinality(SummaryNotes(notes)) <= 1

\* a second pass has found the placeholder that an aborted first pass left
C1_Witness ==
    /\ run["A"].pass = 2
    /\ run["A"].pc = "review_file"
    /\ ~run["A"].created_summary
    /\ run["A"].summary_note_id >= FirstFreeId
    /\ SummaryNoteOf("A").body = Placeholder

\* C2: of two passes in succession in which every call to the store
\* succeeded, with a deterministic advisory stub and the same changes, the
\* second leaves the same published comments (the same (path, line, body)
\* triples, as many) as the first, and each leaves exactly one summary note.
C2_Idempotent ==
    \A k \in 1..(Len(snap) - 1) :
        (/\ advisory.mode = "stub"
         /\ snap[k].clean /\ snap[k + 1].clean
         /\ snap[k + 1].pass = snap[k].pass + 1)
        => /\ snap[k + 1].published = snap[k].published
           /\ snap[k + 1].count = snap[k].count
           /\ snap[k].summaries = 1 /\ snap[k + 1].summaries = 1

\* two clean passes of a stub that gives findings have completed
C2_Witness ==
    /\ Len(snap) = 2
    /\ advisory.mode = "stub"
    /\ snap[1].clean /\ snap[2].clean
    /\ snap[2].count = 2

\* C3 as stated: after a pass completes, every comment of the reviewer in
\* the store was created by that pass, whatever the delete_mr_note calls
\* returned.
C3_Original ==
    \A p \in Procs :
        Done(p) => \A d \in AiComments(discussions) : d.by = run[p].pass

\* C3 as amended: after a pass completes, every comment of the reviewer in
\* the store was created by that pass or is one whose delete_mr_note call
\* failed in that pass; and when no deletion failed and the accepted findings
\* of the pass did not repeat a line with the same body, no (path, line,
\* body) is present twice.
C3_OnlyCurrentOrUndeletable ==
    \A p \in Procs :
        Done(p) =>
            /\ \A d \in AiComments(discussions) :
                  d.by = run[p].pass \/ d.id \in run[p].delete_failed
            /\ (run[p].delete_failed = {} /\ ~run[p].repeated)
                  => \A d, e \in AiComments(discussions) :
                        (d.path = e.path /\ d.line = e.line /\ d.body = e.body) => d = e

\* a completed pass that published a comment and could not delete an old one
C3_Witness ==
    /\ Done("A")
    /\ run["A"].delete_failed # {}
    /\ \E d \in AiComments(discussions) : d.by = run["A"].pass
    /\ \E d \in AiComments(discussions) : d.id \in run["A"].delete_failed

\* the changes of the change sets
AllChanges == UNION {{changes[i] : i \in 1..Len(changes)} : changes \in ChangeSets}

\* the eligible lines of each of them
ChangedLinesOf == [change \in AllChanges |-> parse_diff_for_new_lines(change.diff)]

\* the eligible lines of the change with the path
EligibleLines(file_path) ==
    ChangedLinesOf[mr[CHOOSE i \in 1..Len(mr) : mr[i].new_path = file_path]]

\* C4: create_mr_discussion is never called with a line that is not among
\* the lines parse_diff_for_new_lines gave for the file's diff, nor for a
\* finding whose message is empty, whatever the advisory service answers.
C4_OnlyEligibleLines ==
    \A c \in calls :
        /\ c.message # ""
        /\ c.line.t = "int"
        /\ \E k \in 1..Len(EligibleLines(c.file_path)) :
              EligibleLines(c.file_path)[k] = c.line.v

\* an answer of which one element was dropped and another published
C4_Witness ==
    /\ advisory.mode = "live"
    /\ run["A"].pass = 1
    /\ run["A"].dropped
    /\ calls # {}

\* C5: for a well-formed diff the mapper returns exactly the new-file
\* positions of its added lines, strictly increasing.
C5_MapperExact ==
    (fdone /\ WellFormed(fin)) =>
        /\ fout = AddedPositions(fin, 1, FALSE)
        /\ \A i, j \in 1..Len(fout) : i < j => fout[i] < fout[j]

\* C6: the lines that follow a malformed hunk header add nothing to the
\* result until the next valid header: the result is that of the diff
\* without those lines.
C6_MalformedHeaderSilent ==
    fdone => fout = parse_diff_for_new_lines(Render(DropAfterBad(fin, FALSE)))

\* C7: the "deleted" number of the summary a completed pass wrote is the
\* number of delete_mr_note calls that succeeded.
C7_DeletedCountsSuccesses ==
    \A p \in Procs : Done(p) => SummaryNoteOf(p).body.stats[3] = run[p].deleted_ok

\* C8: an answer of the advisory service that is no list of findings never
\* makes the pass fail: a pass that got one aborts only on a failed call.
C8_MalformedNeverAborts ==
    \A p \in Procs :
        (run[p].malformed /\ run[p].pc = "aborted") => run[p].raised \in {"HTTPError", "APIError"}

\* the three rules of the ignore patterns
GlobSuffixRule(pattern, file_path) ==
    /\ pattern[1] = "*"
    /\ \/ PathSuffix(file_path) = Tail(pattern)
       \/ EndsWith(PathName(file_path), Tail(pattern))

DirectoryRule(pattern, file_path) ==
    /\ pattern[1] # "*"
    /\ pattern[Len(pattern)] = "/"
    /\ Contains(file_path, SubSeq(pattern, 1, Len(pattern) - 1))

SubstringRule(pattern, file_path) ==
    /\ pattern[1] # "*"
    /\ pattern[Len(pattern)] # "/"
    /\ Contains(file_path, pattern)

SomePatternMatches(file_path) ==
    \E i \in 1..Len(config.IGNORE_PATTERNS) :
        \/ GlobSuffixRule(config.IGNORE_PATTERNS[i], file_path)
        \/ DirectoryRule(config.IGNORE_PATTERNS[i], file_path)
        \/ SubstringRule(config.IGNORE_PATTERNS[i], file_path)

\* C9: should_review_file is false when some configured ignore pattern
\* matches the path, whatever its extension, and is otherwise true exactly
\* when the lower-cased extension is reviewable; it is false for a path that
\* contains node_modules and for vendor/pkg/app.go, and true for src/app.go
\* under the default sets.
C9_SelectorRule ==
    fdone =>
        /\ fout = (~SomePatternMatches(fin) /\ Lower(PathSuffix(fin)) \in config.REVIEW_EXTENSIONS)
        /\ Contains(fin, NodeModules) => ~fout
        /\ fin = VendorPkgAppGo => ~fout
        /\ (fin = SrcAppGo /\ config = init_config(<<>>, <<>>)) => fout

\* vendor/pkg/app.go is refused although .go is reviewable
C9_Witness ==
    /\ fdone
    /\ fin = VendorPkgAppGo
    /\ Lower(PathSuffix(fin)) \in config.REVIEW_EXTENSIONS
    /\ ~fout

\* C10: the "comments" number of the summary a completed pass wrote is the
\* number of positioned comments the store accepted in that pass.
C10_CommentCountsPublished ==
    \A p \in Procs : Done(p) => SummaryNoteOf(p).body.stats[2] = run[p].published_ok

\* the calls of the pass of p so far, in the order made
Log(p) == run[p].log

\* the pass of p has made a call op
Called(p, op) == \E k \in 1..Len(Log(p)) : Log(p)[k].op = op

\* no change of the merge request has an eligible line
NoEligibleLines == \A i \in 1..Len(mr) : ChangedLinesOf[mr[i]] = <<>>

\* C11: when every file of the change set has no eligible line the pass
\* calls neither the advisory service nor create_mr_discussion, and the
\* summary it writes counts zero comments and says that no significant
\* problem was found.
C11_NoEligibleNoCalls ==
    \A p \in Procs :
        NoEligibleLines =>
            /\ ~Called(p, "chat")
            /\ ~Called(p, "create_mr_discussion")
            /\ Done(p) =>
                  /\ SummaryNoteOf(p).body.stats[2] = 0
                  /\ BodyContains(SummaryNoteOf(p).body, "no significant problems")
                  /\ ~BodyContains(SummaryNoteOf(p).body, "see inline comments")

\* a pass over changes of removed lines only has written its summary
C11_Witness ==
    /\ NoEligibleLines
    /\ Len(mr) > 0
    /\ Done("A")
    /\ Called("A", "update_mr_note")

\* the state of the pass that a call belongs to: Discover 1, Prune 2, Ensure
\* summary placeholder 3, Per-file analysis 4, Publish 5, Finalize 6 (0: the
\* fetch of the merge request and of its changes, before them all)
StateOf(op) ==
    CASE op \in {"get_mr_info", "get_mr_changes"} -> 0
      [] op = "get_mr_discussions" -> 1
      [] op = "delete_mr_note" -> 2
      [] op \in {"get_mr_notes", "create_mr_note"} -> 3
      [] op \in {"get_file_content", "chat"} -> 4
      [] op = "create_mr_discussion" -> 5
      [] op = "update_mr_note" -> 6

\* C12: within one pass no call of a state is made after a call of a later
\* state: the calls follow the order Discover, Prune, Ensure summary
\* placeholder, Per-file analysis, Publish, Finalize.
C12_StrictStateOrder ==
    \A p \in Procs :
        \A i, j \in 1..Len(Log(p)) :
            i < j => StateOf(Log(p)[i].op) <= StateOf(Log(p)[j].op)

\* the body carries an authorship marker, the current one or the legacy one
HasAuthorMarker(body) ==
    BodyContains(body, AuthorMarker) \/ BodyContains(body, LegacyAuthorMarker)

\* the calls op that the pass of p has made to the note id
CallsTo(p, op, id) ==
    Cardinality({k \in 1..Len(Log(p)) : Log(p)[k].op = op /\ Log(p)[k].target = id})

\* the pass of p has gone through its loop of deletions
Pruned(p) ==
    run[p].pc \in {"get_mr_notes", "create_mr_note", "review_file", "analyze",
                    "create_mr_discussion", "update_mr_note", "done"}

\* the delete and update calls of each pass
C13_Calls ==
    \A p \in Procs :
        /\ \A k \in 1..Len(Log(p)) :
              /\ Log(p)[k].op = "delete_mr_note"
                    => CallsTo(p, "delete_mr_note", Log(p)[k].target) = 1
              /\ Log(p)[k].op = "update_mr_note"
                    => /\ Log(p)[k].target = run[p].summary_note_id
                       /\ CallsTo(p, "update_mr_note", Log(p)[k].target) = 1
        /\ Pruned(p) =>
              \A d \in discussions :
                  (HasAuthorMarker(d.body) /\ d.by # run[p].pass)
                      => CallsTo(p, "delete_mr_note", d.id) = 1

\* what one step does to the notes in the store
C13_Frame ==
    /\ \A d \in discussions :
          d \notin discussions'
              => HasAuthorMarker(d.body) /\ \A e \in discussions' : e.id # d.id
    /\ \A n \in notes :
          n \notin notes'
              => \/ HasAuthorMarker(n.body) /\ \A m \in notes' : m.id # n.id
                 \/ \E q \in Procs :
                       /\ run[q].pc = "update_mr_note"
                       /\ run'[q].pc = "done"
                       /\ n.id = run[q].summary_note_id
                       /\ \E m \in notes' : m.id = n.id

\* C13: a pass deletes only notes whose body carries an authorship marker
\* (current or legacy), with exactly one delete call for each such note that
\* was there before it, and edits in place only the note it took for the
\* summary, with one update call; every other note stays as it was.
C13_OnlyMarkedDeletedOnlySummaryEdited == []C13_Calls /\ [][C13_Frame]_vars

\* a completed pass has deleted a legacy comment and a current one and has
\* rewritten the summary, and the notes of the humans are still as they were
C13_Witness ==
    /\ Done("A")
    /\ CallsTo("A", "delete_mr_note", LegacyAiComment.id) = 1
    /\ CallsTo("A", "delete_mr_note", CurrentAiComment.id) = 1
    /\ CallsTo("A", "update_mr_note", LegacySummaryNote.id) = 1
    /\ SummaryNoteOf("A").body # LegacySummaryNote.body
    /\ HumanNote \in notes
    /\ HumanComment \in discussions

\* the paths of the changes that should_review_file selects under the
\* default configuration, which is that of every pass
SelectedPaths ==
    {change.new_path : change \in {c \in AllChanges :
                                       should_review_file(init_config(<<>>, <<>>), c.new_path)}}

\* the change i of the merge request is one to give to the advisory
\* service: selected, not deleted, with eligible lines and with content
Analyzable(i) ==
    /\ mr[i].new_path \in SelectedPaths
    /\ ~mr[i].deleted_file
    /\ ChangedLinesOf[mr[i]] # <<>>
    /\ mr[i].content = "text"

\* C14: the advisory service is called, and a positioned comment created,
\* only for a change that should_review_file selects, that is no deleted
\* file, that has eligible lines and whose content was fetched; a change
\* that is skipped never ends the pass: a pass aborts only on a call that
\* failed or on the answer of an advisory call.
C14_AdvisoryOnlyForAnalyzable ==
    \A p \in Procs :
        /\ \A k \in 1..Len(Log(p)) :
              Log(p)[k].op \in {"chat", "create_mr_discussion"} => Analyzable(Log(p)[k].target)
        /\ \A c \in calls : \E i \in 1..Len(mr) : mr[i].new_path = c.file_path /\ Analyzable(i)
        /\ run[p].pc = "aborted" =>
              \/ ~Log(p)[Len(Log(p))].ok
              \/ Log(p)[Len(Log(p))].op = "chat"

\* a completed pass has skipped a file absent at the revision and a file
\* without content, and has published a comment on the file between them
C14_Witness ==
    /\ Done("A")
    /\ mr = <<AbsentFile, GoodFile, EmptyContentFile>>
    /\ CallsTo("A", "get_file_content", 1) = 1
    /\ CallsTo("A", "chat", 1) = 0
    /\ CallsTo("A", "chat", 2) = 1
    /\ CallsTo("A", "create_mr_discussion", 2) >= 1
    /\ CallsTo("A", "chat", 3) = 0

\* the calls that read from the store
ReadOps == {"get_mr_info", "get_mr_changes", "get_mr_discussions", "get_mr_notes",
            "get_file_content"}

\* the call k of the pass of p is a read that failed
FailedRead(p, k) == Log(p)[k].op \in ReadOps /\ ~Log(p)[k].ok

\* C15: a read of the store that fails (the merge request, its changes, the
\* discussions, the notes, or a file's content with another status than 404)
\* ends the pass there: it is the last call of the pass, the pass is aborted
\* with the HTTP error, and the note the pass took for the summary still
\* has the body it was found with, or the placeholder the pass created.
C15_FailedReadAborts ==
    \A p \in Procs :
        \A k \in 1..Len(Log(p)) :
            FailedRead(p, k) =>
                /\ k = Len(Log(p))
                /\ run[p].pc = "aborted"
                /\ run[p].raised = "HTTPError"
                /\ run[p].summary_note_id # None =>
                      \E n \in notes :
                          /\ n.id = run[p].summary_note_id
                          /\ n.body = IF run[p].created_summary THEN Placeholder
                                      ELSE run[p].summary_found

\* the fetch of the last file's content failed after the pass had created
\* the placeholder and published a comment on an earlier file
C15_Witness ==
    /\ run["A"].pc = "aborted"
    /\ Len(Log("A")) > 0
    /\ FailedRead("A", Len(Log("A")))
    /\ Log("A")[Len(Log("A"))].op = "get_file_content"
    /\ Called("A", "create_mr_discussion")
    /\ run["A"].created_summary
    /\ SummaryNoteOf("A").body = Placeholder

\* C16: nothing protects the summary against passes that run at once: two
\* interleaved passes can both list the notes before either creates a
\* summary, both create one, and two summary notes exist; more than one
\* summary note exists only when a pass began while another was running, so
\* never with serialized passes.
C16_TwoSummariesOnlyWhenOverlapping ==
    Cardinality(SummaryNotes(notes)) > 1 => \E p \in Procs : run[p].overlaps

\* both passes have found no summary, both have created one, and the store
\* holds two summary notes
C16_Witness ==
    /\ run["A"].created_summary
    /\ run["B"].created_summary
    /\ run["B"].overlaps
    /\ \E k \in 1..Len(Log("B")) :
          /\ Log("B")[k].op = "create_mr_note"
          /\ Log("B")[k].target # run["A"].summary_note_id
    /\ Cardinality(SummaryNotes(notes)) = 2

\* the pass of p has its list of comments to delete
Listed(p) == run[p].pc = "delete_mr_note" \/ Pruned(p)

\* the pass of p has its summary note
Resolved(p) ==
    run[p].pc \in {"review_file", "analyze", "create_mr_discussion", "update_mr_note", "done"}

\* C17: the test of get_existing_ai_comments is false of the placeholder
\* and of every summary that main writes, and true of every body that
\* format_comment gives; so with serialized passes and nobody else writing,
\* the note a pass took for the summary is in the store when the pass
\* updates it, every later pass takes the same note and creates none, and
\* every comment that a pass published is in the next pass's list of
\* comments to delete.
C17_PruneSparesSummary ==
    /\ \A n \in notes : BodyContains(n.body, SummaryMarker) => ~IsAiComment(n)
    /\ \A d \in discussions : d.by # 0 => IsAiComment(d)
    /\ \A p \in Procs :
          /\ run[p].pc \in {"update_mr_note", "done"}
                => \E n \in notes : n.id = run[p].summary_note_id
          /\ Resolved(p) =>
                \A k \in 1..Len(snap) :
                    snap[k].pass < run[p].pass
                        => /\ run[p].summary_note_id = snap[k].summary_note_id
                           /\ ~run[p].created_summary
          /\ Listed(p) =>
                \A d \in discussions :
                    (d.by # 0 /\ d.by < run[p].pass)
                        => \E k \in 1..Len(run[p].existing_ai_comments) :
                              run[p].existing_ai_comments[k].note_id = d.id

\* the second pass has deleted a comment that the first published, and has
\* rewritten the summary note that the first created
C17_Witness ==
    /\ Done("A")
    /\ Len(snap) = 2
    /\ snap[1].summary_note_id >= FirstFreeId
    /\ run["A"].summary_note_id = snap[1].summary_note_id
    /\ ~run["A"].created_summary
    /\ \E k \in 1..Len(Log("A")) :
          /\ Log("A")[k].op = "delete_mr_note"
          /\ Log("A")[k].target >= FirstFreeId
          /\ Log("A")[k].ok

====
